---- MODULE Spec2Model ----
(***************************************************************************)
(* Model of package null (src/string.go): the nullable String type, its    *)
(* constructors, JSON and text decoders, text encoder, pointer accessor    *)
(* and the Scan/Value methods promoted from the embedded sql.NullString.   *)
(*                                                                         *)
(* A Go string is modelled as a finite sequence of bytes, a []byte as a    *)
(* finite sequence of bytes, a String as a record [String, Valid].         *)
(* A JSON input is modelled by the dynamic shape encoding/json decodes it  *)
(* to (the value the type switch of UnmarshalJSON sees).                   *)
(***************************************************************************)
EXTENDS Integers, Sequences, FiniteSets, TLC

VARIABLES s, raw, p, q, mem, last, rt

vars == <<s, raw, p, q, mem, last, rt>>

(* ---------------------------- bounds ----------------------------------- *)

\* longest string / byte sequence drawn as an input
MaxLen == 1

\* the byte values strings are built from ('a', 'b')
Byte == {97, 98}

RECURSIVE StrUpTo(_)
StrUpTo(n) ==
    IF n = 0 THEN {<<>>}
    ELSE LET prev == StrUpTo(n - 1)
         IN  prev \cup {Append(t, b) : t \in {u \in prev : Len(u) = n - 1}, b \in Byte}

\* the Go strings (and byte slices) of the model
Str == StrUpTo(MaxLen)

Empty == <<>>

(* ------------------------- string <-> []byte --------------------------- *)

\* []byte(str): a fresh slice holding the bytes of str
ToBytes(str) == [i \in 1..Len(str) |-> str[i]]

\* string(text): a string holding the bytes of text
FromBytes(text) == [i \in 1..Len(text) |-> text[i]]

(* ----------------------------- the type -------------------------------- *)

\* type String struct { sql.NullString }: fields String and Valid
StringT == [String : Str, Valid : BOOLEAN]

\* the Go zero value of String
ZeroString == [String |-> Empty, Valid |-> FALSE]

\* func NewString(s string, valid bool) String
NewString(str, valid) == [String |-> str, Valid |-> valid]

\* StringFrom without the blank check
StringFromAlwaysValid(str) == NewString(str, TRUE)

\* func StringFrom(s string) String
StringFrom(str) == NewString(str, str # Empty)

(* ------------------------------ memory --------------------------------- *)
(* Addresses: Nil, "P" (a string variable of the caller), "Q" (the cell    *)
(* holding the receiver copy whose field Ptr returned the address of) and  *)
(* "S" (the String field of the variable s itself).                        *)

Nil == "nil"

\* *addr
Deref(addr, m, recv) == IF addr = "S" THEN recv.String ELSE m[addr]

\* func StringFromPtr(s *string) String
StringFromPtr(ptr, m, recv) ==
    IF ptr = Nil
    THEN NewString(Empty, FALSE)
    ELSE NewString(Deref(ptr, m, recv), Deref(ptr, m, recv) # Empty)

\* Ptr testing for a blank string instead of the Valid flag
PtrNilWhenBlank(recv) == IF recv.String = Empty THEN Nil ELSE "Q"

\* Ptr with a pointer receiver: the address of the caller's own field
PtrAliasing(recv) == IF ~recv.Valid THEN Nil ELSE "S"

\* func (s String) Ptr() *string: the receiver is a copy of the caller's
\* String; the result is the address of that copy's String field
Ptr(recv) == IF ~recv.Valid THEN Nil ELSE "Q"

\* func (s String) IsZero() bool
IsZero(recv) == ~recv.Valid \/ recv.String = Empty

(* --------------------------- JSON inputs ------------------------------- *)
(* A member of an object: absent, null, a number, a string or a boolean.   *)

Field(kind, str, b) == [kind |-> kind, str |-> str, b |-> b]
FAbsent == Field("absent", Empty, FALSE)
FNull   == Field("null", Empty, FALSE)
FNumber == Field("number", Empty, FALSE)
FStr(t) == Field("string", t, FALSE)
FBool(b) == Field("bool", Empty, b)

\* the "String" members drawn as inputs
Fields == {FAbsent, FNull, FNumber} \cup {FStr(t) : t \in Str} \cup {FBool(b) : b \in BOOLEAN}

\* the "Valid" members drawn as inputs (a string member is of the wrong
\* type whatever it holds)
ValidFields == {FAbsent, FNull, FNumber, FStr(Empty)} \cup {FBool(b) : b \in BOOLEAN}

JSON(kind, str, fS, fV) == [kind |-> kind, str |-> str, fS |-> fS, fV |-> fV]
\* bytes that are not JSON: json.Unmarshal fails and v stays nil
JInvalid == JSON("invalid", Empty, FAbsent, FAbsent)
JNull    == JSON("null", Empty, FAbsent, FAbsent)
\* a number float64 can hold: v is a float64
JNumber  == JSON("number", Empty, FAbsent, FAbsent)
\* a number literal outside the float64 range (1e999): json.Unmarshal
\* reports it, the report is discarded and v stays nil
JOverflow == JSON("overflow", Empty, FAbsent, FAbsent)
JBool    == JSON("bool", Empty, FAbsent, FAbsent)
JArray   == JSON("array", Empty, FAbsent, FAbsent)
JStr(t)  == JSON("string", t, FAbsent, FAbsent)
\* {"String": fS, "Valid": fV}, either member possibly absent
JObj(fS, fV) == JSON("object", Empty, fS, fV)
NoJSON   == JSON("none", Empty, FAbsent, FAbsent)

JSONInputs ==
    {JInvalid, JNull, JNumber, JOverflow, JBool, JArray}
    \cup {JStr(t) : t \in Str}
    \cup {JObj(fS, fV) : fS \in Fields, fV \in ValidFields}

\* the shapes no case of the type switch matches
OtherKinds == {"number", "bool", "array"}

\* the inputs that leave v nil: null, and the inputs the discarded
\* json.Unmarshal failed on
NilKinds == {"null", "invalid", "overflow"}

(* ------------------------- JSON decoding ------------------------------- *)

\* a decode of the record that never stores the "String" member
DecodeNullStringDropsString(recv, data) ==
    [String |-> recv.String,
     Valid  |-> IF data.fV.kind = "bool" THEN data.fV.b ELSE recv.Valid,
     err    |-> \/ data.fS.kind \in {"number", "bool"}
                \/ data.fV.kind \in {"number", "string"}]

\* json.Unmarshal(data, &s.NullString) on an object: a string member
\* "String" and a boolean member "Valid" are stored, null and absent
\* members leave the field alone, a member of another type is skipped and
\* reported (the decoder goes on with the remaining members).
DecodeNullString(recv, data) ==
    [String |-> IF data.fS.kind = "string" THEN data.fS.str ELSE recv.String,
     Valid  |-> IF data.fV.kind = "bool" THEN data.fV.b ELSE recv.Valid,
     err    |-> \/ data.fS.kind \in {"number", "bool"}
                \/ data.fV.kind \in {"number", "string"}]

\* the switch with a nil case that clears Valid but does not return
SwitchNullFallsThrough(recv, data) ==
    CASE data.kind = "string" ->
           [String |-> data.str, Valid |-> recv.Valid, err |-> FALSE, ret |-> FALSE]
      [] data.kind = "object" ->
           [String |-> IF data.fS.kind = "string" THEN data.fS.str ELSE recv.String,
            Valid  |-> IF data.fV.kind = "bool" THEN data.fV.b ELSE recv.Valid,
            err    |-> \/ data.fS.kind \in {"number", "bool"}
                       \/ data.fV.kind \in {"number", "string"},
            ret    |-> FALSE]
      [] OTHER ->
           [String |-> recv.String, Valid |-> FALSE, err |-> FALSE, ret |-> FALSE]

\* the switch of UnmarshalJSON: the receiver after the matching case, the
\* error so far, and whether the case returned
SwitchOnShape(recv, data) ==
    CASE data.kind = "string" ->
           [String |-> data.str, Valid |-> recv.Valid, err |-> FALSE, ret |-> FALSE]
      [] data.kind = "object" ->
           LET d == DecodeNullString(recv, data)
           IN  [String |-> d.String, Valid |-> d.Valid, err |-> d.err, ret |-> FALSE]
      [] data.kind \in NilKinds ->
           [String |-> recv.String, Valid |-> FALSE, err |-> FALSE, ret |-> TRUE]
      [] OTHER ->
           [String |-> recv.String, Valid |-> recv.Valid, err |-> FALSE, ret |-> FALSE]

\* the final assignment without the blank check
NormalizeNoBlankCheck(str, err) == ~err

\* s.Valid = (err == nil) && (s.String != "")
Normalize(str, err) == (~err) /\ (str # Empty)

\* UnmarshalJSON that drops the error of the record decode
UnmarshalJSONSwallowsErr(recv, data) ==
    LET c == SwitchOnShape(recv, data)
    IN  IF c.ret
        THEN [s |-> [String |-> c.String, Valid |-> c.Valid], err |-> FALSE]
        ELSE [s |-> [String |-> c.String, Valid |-> Normalize(c.String, c.err)],
              err |-> FALSE]

\* UnmarshalJSON that returns without the final assignment when no case
\* of the switch matched
UnmarshalJSONSkipsUnmatched(recv, data) ==
    LET c == SwitchOnShape(recv, data)
    IN  IF c.ret \/ data.kind \in OtherKinds
        THEN [s |-> [String |-> c.String, Valid |-> c.Valid], err |-> FALSE]
        ELSE [s |-> [String |-> c.String, Valid |-> Normalize(c.String, c.err)],
              err |-> c.err]

\* func (s *String) UnmarshalJSON(data []byte) error
UnmarshalJSON(recv, data) ==
    LET c == SwitchOnShape(recv, data)
    IN  IF c.ret
        THEN [s |-> [String |-> c.String, Valid |-> c.Valid], err |-> FALSE]
        ELSE [s |-> [String |-> c.String, Valid |-> Normalize(c.String, c.err)],
              err |-> c.err]

(* ----------------------------- text ------------------------------------ *)

\* MarshalText without the Valid test
MarshalTextNoValidTest(recv) == [out |-> ToBytes(recv.String), err |-> FALSE]

\* func (s String) MarshalText() ([]byte, error)
MarshalText(recv) ==
    IF ~recv.Valid
    THEN [out |-> <<>>, err |-> FALSE]
    ELSE [out |-> ToBytes(recv.String), err |-> FALSE]

\* func (s *String) UnmarshalText(text []byte) error
UnmarshalText(recv, text) ==
    [s |-> [String |-> FromBytes(text), Valid |-> FromBytes(text) # Empty],
     err |-> FALSE]

(* -------------------- promoted sql.NullString methods ------------------ *)
(* A column value or driver value: NULL or a text.                         *)

Col(null, text) == [null |-> null, text |-> text]
ColNull == Col(TRUE, Empty)
Cols == {ColNull} \cup {Col(FALSE, t) : t \in Str}

\* func (ns *NullString) Scan(value any) error, promoted to *String
Scan(recv, col) ==
    IF col.null
    THEN [String |-> Empty, Valid |-> FALSE]
    ELSE [String |-> col.text, Valid |-> TRUE]

\* Value storing NULL for a blank string as well
ValueBlankAsNull(recv) ==
    IF ~recv.Valid \/ recv.String = Empty THEN ColNull ELSE Col(FALSE, recv.String)

\* func (ns NullString) Value() (driver.Value, error), promoted to String
Value(recv) ==
    IF ~recv.Valid THEN ColNull ELSE Col(FALSE, recv.String)

(* --------------------------- the state --------------------------------- *)
(* s    the String variable the operations act on                          *)
(* raw  s was last built by NewString or Scan and not rebuilt since        *)
(* p    the pointer last passed to StringFromPtr; q the pointer last       *)
(*      returned by Ptr; mem the cells they point to                       *)
(* last the last call: operation, inputs, receiver before, results         *)
(* rt   a text round trip: source value, encoded bytes, stage              *)

Call(op, json, text, flag, ptr, pre, err, out, col) ==
    [op |-> op, json |-> json, text |-> text, flag |-> flag, ptr |-> ptr,
     pre |-> pre, err |-> err, out |-> out, col |-> col]

NoCall == Call("init", NoJSON, Empty, FALSE, Nil, ZeroString, FALSE, Empty, ColNull)

NoRT == [x |-> ZeroString, buf |-> Empty, err |-> FALSE, stage |-> "off"]

Init ==
    /\ s = ZeroString
    /\ raw = FALSE
    /\ p = Nil
    /\ q = Nil
    /\ mem = [P |-> Empty, Q |-> Empty]
    /\ last = NoCall
    /\ rt = NoRT

DoNewString ==
    \E str \in Str, valid \in BOOLEAN :
        /\ s' = NewString(str, valid)
        /\ raw' = TRUE
        /\ last' = Call("NewString", NoJSON, str, valid, Nil, s, FALSE, Empty, ColNull)
        /\ UNCHANGED <<p, q, mem, rt>>

DoStringFrom ==
    \E str \in Str :
        /\ s' = StringFrom(str)
        /\ raw' = FALSE
        /\ last' = Call("StringFrom", NoJSON, str, FALSE, Nil, s, FALSE, Empty, ColNull)
        /\ UNCHANGED <<p, q, mem, rt>>

\* the caller passes nil or the address of a string variable holding str
DoStringFromPtr ==
    \E ptr \in {Nil, "P"}, str \in Str :
        /\ (ptr = Nil) => (str = Empty)
        /\ mem' = [mem EXCEPT !.P = str]
        /\ p' = ptr
        /\ s' = StringFromPtr(ptr, mem', s)
        /\ raw' = FALSE
        /\ last' = Call("StringFromPtr", NoJSON, Empty, FALSE, ptr, s, FALSE, Empty, ColNull)
        /\ UNCHANGED <<q, rt>>

DoUnmarshalJSON ==
    \E data \in JSONInputs :
        LET r == UnmarshalJSON(s, data)
        IN  /\ s' = r.s
            /\ last' = Call("UnmarshalJSON", data, Empty, FALSE, Nil, s, r.err, Empty, ColNull)
            /\ UNCHANGED <<raw, p, q, mem, rt>>

DoUnmarshalText ==
    \E text \in Str :
        LET r == UnmarshalText(s, text)
        IN  /\ s' = r.s
            /\ last' = Call("UnmarshalText", NoJSON, text, FALSE, Nil, s, r.err, Empty, ColNull)
            /\ UNCHANGED <<raw, p, q, mem, rt>>

DoMarshalText ==
    LET r == MarshalText(s)
    IN  /\ last' = Call("MarshalText", NoJSON, Empty, FALSE, Nil, s, r.err, r.out, ColNull)
        /\ UNCHANGED <<s, raw, p, q, mem, rt>>

\* the cell of an earlier result is dropped when q is overwritten
DoPtr ==
    LET a == Ptr(s)
    IN  /\ q' = a
        /\ mem' = [mem EXCEPT !.Q = IF a = "Q" THEN s.String ELSE Empty]
        /\ last' = Call("Ptr", NoJSON, Empty, FALSE, a, s, FALSE, Empty, ColNull)
        /\ UNCHANGED <<s, raw, p, rt>>

DoIsZero ==
    /\ last' = Call("IsZero", NoJSON, Empty, IsZero(s), Nil, s, FALSE, Empty, ColNull)
    /\ UNCHANGED <<s, raw, p, q, mem, rt>>

\* the caller assigns str through a pointer it holds: *ptr = str
DoWrite ==
    \E ptr \in {p, q} \ {Nil}, str \in Str :
        /\ IF ptr = "S"
           THEN s' = [s EXCEPT !.String = str] /\ UNCHANGED mem
           ELSE mem' = [mem EXCEPT ![ptr] = str] /\ UNCHANGED s
        /\ last' = Call("Write", NoJSON, str, FALSE, ptr, s, FALSE, Empty, ColNull)
        /\ UNCHANGED <<raw, p, q, rt>>

DoScan ==
    \E col \in Cols :
        /\ s' = Scan(s, col)
        /\ raw' = TRUE
        /\ last' = Call("Scan", NoJSON, Empty, FALSE, Nil, s, FALSE, Empty, col)
        /\ UNCHANGED <<p, q, mem, rt>>

DoValue ==
    /\ last' = Call("Value", NoJSON, Empty, FALSE, Nil, s, FALSE, Empty, Value(s))
    /\ UNCHANGED <<s, raw, p, q, mem, rt>>

(* The constructors, decoders and encoders of the package and the promoted *)
(* sql.NullString methods, called in any order on one String variable.     *)
Next ==
    \/ DoNewString
    \/ DoStringFrom
    \/ DoStringFromPtr
    \/ DoUnmarshalJSON
    \/ DoUnmarshalText
    \/ DoMarshalText
    \/ DoScan
    \/ DoValue

Spec == Init /\ [][Next]_vars

(* The constructors and the accessors, with a caller that keeps the        *)
(* pointer it passed to StringFromPtr and the pointer Ptr returned, and     *)
(* assigns through them.                                                   *)
NextPtr ==
    \/ DoNewString
    \/ DoStringFrom
    \/ DoStringFromPtr
    \/ DoMarshalText
    \/ DoPtr
    \/ DoIsZero
    \/ DoWrite

SpecPtr == Init /\ [][NextPtr]_vars

(* ------------------------- text round trip ----------------------------- *)
(* x is any String value, the receiver s any String value; x is encoded    *)
(* and the bytes are decoded into the receiver.                            *)

InitRT ==
    /\ s \in StringT
    /\ raw = FALSE
    /\ p = Nil
    /\ q = Nil
    /\ mem = [P |-> Empty, Q |-> Empty]
    /\ last = NoCall
    /\ rt \in {[x |-> x, buf |-> Empty, err |-> FALSE, stage |-> "start"] : x \in StringT}

RTMarshal ==
    /\ rt.stage = "start"
    /\ LET r == MarshalText(rt.x)
       IN  rt' = [rt EXCEPT !.buf = r.out, !.err = r.err, !.stage = "encoded"]
    /\ UNCHANGED <<s, raw, p, q, mem, last>>

RTUnmarshal ==
    /\ rt.stage = "encoded"
    /\ LET r == UnmarshalText(s, rt.buf)
       IN  /\ s' = r.s
           /\ rt' = [rt EXCEPT !.err = r.err, !.stage = "decoded"]
           /\ last' = Call("UnmarshalText", NoJSON, rt.buf, FALSE, Nil, s, r.err, Empty, ColNull)
    /\ UNCHANGED <<raw, p, q, mem>>

NextRT == RTMarshal \/ RTUnmarshal

SpecRT == InitRT /\ [][NextRT]_vars

(* ------------------------------ claims --------------------------------- *)

\* C1: a String built by StringFrom, StringFromPtr or the zero value, and
\* then decoded any number of times by UnmarshalJSON and UnmarshalText
\* (failing decodes included), is never valid with a blank string.
C1_EmptyImpliesInvalid == (~raw) => ~(s.Valid /\ s.String = Empty)

\* the nested flag of {"String":"","Valid":true} was decoded into a String
\* that no raw constructor built
C1_Witness ==
    /\ ~raw
    /\ last.op = "UnmarshalJSON"
    /\ last.json = JObj(FStr(Empty), FBool(TRUE))
    /\ last.pre.Valid
    /\ s = [String |-> Empty, Valid |-> FALSE]

\* C2: UnmarshalJSON of a JSON string x returns no error and leaves
\* String = x, Valid = (x # ""); of JSON null returns no error, clears Valid
\* and leaves the String field as it was; for every prior receiver.
C2_StringAndNull ==
    (last.op = "UnmarshalJSON") =>
        /\ (last.json.kind = "string") =>
               /\ ~last.err
               /\ s.String = last.json.str
               /\ s.Valid = (last.json.str # Empty)
        /\ (last.json.kind = "null") =>
               /\ ~last.err
               /\ ~s.Valid
               /\ s.String = last.pre.String

\* null decoded into a receiver that was present
C2_Witness ==
    /\ last.op = "UnmarshalJSON"
    /\ last.json.kind = "null"
    /\ last.pre.Valid
    /\ last.pre.String # Empty
    /\ s = [String |-> last.pre.String, Valid |-> FALSE]

\* C3 as stated: UnmarshalJSON of a number (whatever its size), boolean or
\* array returns no error, leaves the String field unchanged and ends with
\* Valid = FALSE, for every prior receiver.
C3_OtherShapeEndsNull ==
    (last.op = "UnmarshalJSON" /\ last.json.kind \in OtherKinds \cup {"overflow"}) =>
        /\ ~last.err
        /\ s.String = last.pre.String
        /\ ~s.Valid

\* C3 amended: UnmarshalJSON of a boolean, an array or a number float64 can
\* hold returns no error, leaves the String field unchanged and ends with
\* Valid = (String # ""): null exactly when the receiver's string was blank
\* before the call.  A number literal outside the float64 range is treated
\* as null is: no error, String unchanged, Valid = FALSE.
C3_OtherShapeRenormalizes ==
    /\ (last.op = "UnmarshalJSON" /\ last.json.kind \in OtherKinds) =>
          /\ ~last.err
          /\ s.String = last.pre.String
          /\ s.Valid = (last.pre.String # Empty)
    /\ (last.op = "UnmarshalJSON" /\ last.json.kind = "overflow") =>
          /\ ~last.err
          /\ s.String = last.pre.String
          /\ ~s.Valid

\* a number decoded into a null receiver holding a string made it present
C3_Witness ==
    /\ last.op = "UnmarshalJSON"
    /\ last.json.kind = "number"
    /\ ~last.pre.Valid
    /\ last.pre.String # Empty
    /\ s.Valid

\* C4: UnmarshalJSON of {"String": t, "Valid": b}, t a string and b a
\* boolean, returns no error and leaves String = t, Valid = (t # "") for
\* both values of b.
C4_ObjectIgnoresNestedValid ==
    (/\ last.op = "UnmarshalJSON"
     /\ last.json.kind = "object"
     /\ last.json.fS.kind = "string"
     /\ last.json.fV.kind = "bool") =>
        /\ ~last.err
        /\ s.String = last.json.fS.str
        /\ s.Valid = (last.json.fS.str # Empty)

\* {"String": t, "Valid": false} with t not blank decoded to present
C4_Witness ==
    /\ last.op = "UnmarshalJSON"
    /\ last.json.kind = "object"
    /\ last.json.fS.kind = "string"
    /\ last.json.fS.str # Empty
    /\ last.json.fV = FBool(FALSE)
    /\ last.pre.String # last.json.fS.str
    /\ s.Valid

\* C5: UnmarshalJSON returns an error exactly when the input is an object
\* with a member of the wrong type for the record, and then ends with
\* Valid = FALSE; every other input, bytes that are not JSON included,
\* returns nil; UnmarshalText and MarshalText always return nil.
C5_ErrorOnlyFromObject ==
    /\ (last.op = "UnmarshalJSON") =>
          /\ last.err <=>
                /\ last.json.kind = "object"
                /\ \/ last.json.fS.kind \in {"number", "bool"}
                   \/ last.json.fV.kind \in {"number", "string"}
          /\ last.err => ~s.Valid
    /\ (last.op \in {"UnmarshalText", "MarshalText"}) => ~last.err

\* an object with a good "String" and a bad "Valid" member failed
C5_Witness ==
    /\ last.op = "UnmarshalJSON"
    /\ last.err
    /\ last.json.fS.kind = "string"
    /\ last.json.fS.str # Empty
    /\ last.json.fV.kind = "number"
    /\ s.String = last.json.fS.str
    /\ ~s.Valid

\* C6: for x valid and not blank, decoding MarshalText(x) into any receiver
\* gives x; for x not valid, MarshalText(x) is empty and decoding it gives
\* Valid = FALSE and String = "".
C6_TextRoundTrip ==
    /\ (rt.stage \in {"encoded", "decoded"}) =>
          /\ ~rt.err
          /\ (~rt.x.Valid) => (rt.buf = <<>>)
    /\ (rt.stage = "decoded") =>
          /\ (rt.x.Valid /\ rt.x.String # Empty) => (s = rt.x)
          /\ (~rt.x.Valid) => (s = [String |-> Empty, Valid |-> FALSE])

\* a null x that holds a string was encoded and decoded into a receiver
\* that was present
C6_Witness ==
    /\ rt.stage = "decoded"
    /\ ~rt.x.Valid
    /\ rt.x.String # Empty
    /\ last.pre.Valid
    /\ last.pre.String # Empty
    /\ s = ZeroString

\* C7 as stated: Scan of NULL gives null, Scan of a text gives that text,
\* present; Value of a null String is NULL, Value of a valid String with a
\* blank string is NULL, Value of a valid String with a text is the text.
C7_BlankStoresNull ==
    /\ (last.op = "Scan") =>
          IF last.col.null
          THEN ~s.Valid
          ELSE s.Valid /\ s.String = last.col.text
    /\ (last.op = "Value") =>
          IF ~s.Valid \/ s.String = Empty
          THEN last.col.null
          ELSE ~last.col.null /\ last.col.text = s.String

\* C7 amended: Scan of NULL gives null, Scan of a text gives that text,
\* present; Value of a null String is NULL, Value of any valid String is its
\* string, the blank string included (stored as a blank text, not as NULL).
C7_ScanValue ==
    /\ (last.op = "Scan") =>
          IF last.col.null
          THEN ~s.Valid
          ELSE s.Valid /\ s.String = last.col.text
    /\ (last.op = "Value") =>
          IF ~s.Valid
          THEN last.col.null
          ELSE ~last.col.null /\ last.col.text = s.String

\* Value of a valid String with a blank string returned a blank text
C7_Witness ==
    /\ last.op = "Value"
    /\ s.Valid
    /\ s.String = Empty
    /\ last.col = Col(FALSE, Empty)

\* C8: StringFrom(t) has String = t and Valid = (t # ""); StringFromPtr(nil)
\* is blank and not valid; StringFromPtr(ptr) for ptr not nil has the string
\* ptr points to and is valid when that string is not blank; NewString(t, v)
\* stores t and v as given.
C8_Constructors ==
    /\ (last.op = "StringFrom") =>
          /\ s.String = last.text
          /\ s.Valid = (last.text # Empty)
    /\ (last.op = "StringFromPtr" /\ last.ptr = Nil) =>
          /\ s.String = Empty
          /\ ~s.Valid
    /\ (last.op = "StringFromPtr" /\ last.ptr # Nil) =>
          /\ s.String = mem[last.ptr]
          /\ s.Valid = (mem[last.ptr] # Empty)
    /\ (last.op = "NewString") =>
          /\ s.String = last.text
          /\ s.Valid = last.flag

\* StringFrom of a blank string over a receiver that was present
C8_Witness ==
    /\ last.op = "StringFrom"
    /\ last.text = Empty
    /\ last.pre.Valid
    /\ s = ZeroString

\* C9: Ptr returns nil exactly when Valid is false, and otherwise a pointer
\* to a string equal to the String field, for every String (those built by
\* NewString included).
C9_Ptr ==
    (last.op = "Ptr") =>
        /\ (last.ptr = Nil) <=> ~s.Valid
        /\ (last.ptr # Nil) => (Deref(last.ptr, mem, s) = s.String)
        /\ q = last.ptr

\* Ptr of a valid String with a blank string returned a pointer
C9_Witness ==
    /\ last.op = "Ptr"
    /\ s = [String |-> Empty, Valid |-> TRUE]
    /\ q # Nil

\* C10: the String StringFromPtr returns holds a copy of the string passed;
\* a write through the pointer passed to StringFromPtr or through the
\* pointer Ptr returned changes neither field of the String; MarshalText,
\* Ptr and IsZero leave the String unchanged.
C10_NoAliasing ==
    [][/\ (last'.op = "Write") =>
             /\ s' = s
             /\ Deref(last'.ptr, mem', s') = last'.text
       /\ (last'.op \in {"MarshalText", "Ptr", "IsZero"}) => (s' = s)
      ]_vars

\* both pointers were written through and the cells now differ from the
\* String, which is still present
C10_Witness ==
    /\ last.op = "Write"
    /\ p = "P"
    /\ q = "Q"
    /\ s.Valid
    /\ mem.P # s.String
    /\ mem.Q # s.String
    /\ mem.P # mem.Q

====
